---- MODULE Spec2Model ----
(***************************************************************************)
(* The curation engine of scripts/04_score_masked.py: startup checks, the  *)
(* video manifest (Pass 0), and for each category the scoring pass with    *)
(* its two quality gates (Pass 1), normalisation and aggregation (Pass 2), *)
(* the stable sort, the greedy de-duplicating selection pass and the copy  *)
(* of the selected files.                                                  *)
(*                                                                         *)
(* Numbers.  Sharpness values are integers.  Pose and brightness scores    *)
(* lie in [0,1] and are kept in tenths (0..ScoreScale).  Normalised        *)
(* sharpness and the final score are exact rationals <<num, den>>.  The    *)
(* temporal test compares means and halves; the model compares the same    *)
(* quantities cross-multiplied, which is exact on integers.                *)
(*                                                                         *)
(* Perceptual hashes are the 16-digit hexadecimal strings imagehash        *)
(* prints, kept as sequences of 16 digits 0..15; hex_to_hash turns one     *)
(* into the set of its set bits and the distance counts differing bits.    *)
(***************************************************************************)
EXTENDS Integers, Sequences, FiniteSets, TLC

(***************************************************************************)
(* Configuration of the script.                                            *)
(***************************************************************************)
GLOBAL_HASH_THRESHOLD == 3
INTRA_SOURCE_HASH_THRESHOLD == 10
MAX_CONTOUR_COUNT == 3
MIN_SHARPNESS_THRESHOLD == 50
\* WEIGHTS, in tenths.
W_POSE == 6
W_SHARPNESS == 3
W_BRIGHTNESS == 1
WeightScale == W_POSE + W_SHARPNESS + W_BRIGHTNESS
\* The temporal quota: the spread test runs at 5 accepted frames of a source,
\* the hard cap is 6.
TEMPORAL_TEST_COUNT == 5
SOURCE_CAP == 6
\* Pose and brightness scores are kept in tenths.
ScoreScale == 10
\* A phash of hash_size 8 prints as 16 hexadecimal digits.
HashDigits == 16

CATEGORIES_TO_SCORE == <<"face_and_hair", "upper_body", "full_body">>

(***************************************************************************)
(* Bounds of the model.                                                    *)
(***************************************************************************)
\* Images read in one run of a short listing, over all categories.
MaxImages == 2
\* Images read in one run of a burst listing (one source video, many frames).
MaxBurstImages == 10
\* Source frames scanned for the manifest.
MaxSourceFiles == 2
\* Iteration orders of seen_global_hashes are enumerated in full up to this size.
MaxPermuted == 3
\* Images read in one run of a ladder listing.
MaxLadderImages == 10
\* Items of the list handed to the selectors of 03_score_and_rank.
MaxRankedItems == 10

(***************************************************************************)
(* Hashes.                                                                 *)
(***************************************************************************)
\* imagehash.hex_to_hash: the bit array of a hexadecimal string, as the set of
\* the positions of its 1 bits.
hex_to_hash(s) ==
    {b \in 0..(4 * Len(s) - 1) : (s[(b \div 4) + 1] \div (2 ^ (b % 4))) % 2 = 1}

\* ImageHash.__sub__: the number of differing bits.
HashDistance(a, b) == Cardinality((a \ b) \cup (b \ a))

\* A hexadecimal string whose first k bits are set and the others clear.
LowBits(k) ==
    [i \in 1..HashDigits |->
        IF 4 * i <= k THEN 15
        ELSE IF 4 * (i - 1) >= k THEN 0
        ELSE (2 ^ (k - 4 * (i - 1))) - 1]

\* Rows of a 16 x 16 Hadamard matrix over the digits 0 and F: any two of them
\* differ in 8 digits, 32 bits.
Bit(n, j) == (n \div (2 ^ j)) % 2
Parity(r, c) == (Bit(r, 0) * Bit(c, 0) + Bit(r, 1) * Bit(c, 1)
                 + Bit(r, 2) * Bit(c, 2) + Bit(r, 3) * Bit(c, 3)) % 2
FarHash(r) == [i \in 1..HashDigits |-> IF Parity(r, i - 1) = 1 THEN 15 ELSE 0]

\* A string 2 bits away from FarHash(r) (the first digit of every row is 0).
NearHash(r) == [FarHash(r) EXCEPT ![1] = 3]

\* The hexadecimal string of a set of bit positions.
HexOfBits(S) ==
    [i \in 1..HashDigits |->
        (IF 4 * (i - 1) \in S THEN 1 ELSE 0) + (IF 4 * (i - 1) + 1 \in S THEN 2 ELSE 0)
        + (IF 4 * (i - 1) + 2 \in S THEN 4 ELSE 0)
        + (IF 4 * (i - 1) + 3 \in S THEN 8 ELSE 0)]

\* The shifts of the quadratic residues modulo 19 meet pairwise in 4 points
\* and so differ in 10; with every point doubled, two of these strings are 20
\* bits apart.
QuadraticResidues19 == {1, 4, 5, 6, 7, 9, 11, 16, 17}
SpreadHash(r) ==
    HexOfBits({b \in 0..37 : ((b \div 2) + 19 - r) % 19 \in QuadraticResidues19})

NA == <<>>

(***************************************************************************)
(* The files on disk.  The run reads one of three kinds of project: a short *)
(* one (few frames, every kind of content), a burst (many frames of one    *)
(* source video, all of them sharp and well masked) or a ladder (ten       *)
(* frames on evenly spaced scores).  A listing is the order in which glob  *)
(* hands out the files of a folder.                                        *)
(***************************************************************************)
Videos == {"vidA", "vidB"}
Families == {"short", "burst", "ladder"}

File(v, f) == [source_video |-> v, frame_index |-> f]

Content(r, c, s, p, b, h) ==
    [read |-> r, contours |-> c, sharpness |-> s, pose |-> p, brightness |-> b,
     phash |-> h]

\* <source>_frame_<index>.png names, in ascending order.
ShortFiles == <<File("vidA", 1), File("vidA", 2), File("vidB", 1)>>
BurstFiles ==
    <<File("vidA", 5), File("vidA", 18), File("vidA", 19), File("vidA", 20),
      File("vidA", 21), File("vidA", 22), File("vidA", 30), File("vidA", 60),
      File("vidA", 61), File("vidA", 90), File("vidB", 7)>>
LadderFiles ==
    <<File("vidA", 1), File("vidA", 2), File("vidA", 3), File("vidA", 4),
      File("vidA", 5), File("vidB", 1), File("vidB", 2), File("vidB", 3),
      File("vidB", 4), File("vidB", 5)>>
CategoryFiles(fam) ==
    IF fam = "short" THEN ShortFiles
    ELSE IF fam = "burst" THEN BurstFiles
    ELSE LadderFiles

\* What a short project's file may hold: an unreadable file, an image without
\* alpha channel, an image on which the pose model or the hashing raises; a
\* mask with no region, with too many regions (sharp or blurry); a blurry
\* image; a good image with one of three score profiles (0.9, 0.85 and 0.15
\* of the full score when the sharpest survivor has sharpness 100) and a hash
\* with its first 0, 2, 3 or 12 bits set.
ShortContents ==
    {Content("unreadable", 0, 0, 0, 0, NA),
     Content("not_4_channel", 0, 0, 0, 0, NA),
     Content("error", 1, 100, 0, 0, NA),
     Content("ok", 0, 0, 0, 0, LowBits(0)),
     Content("ok", 4, 200, 10, 10, LowBits(0)),
     Content("ok", 4, 40, 10, 10, LowBits(0)),
     Content("ok", 1, 40, 10, 10, LowBits(0))}
    \cup {Content("ok", 1, 100, 10, 0, h) : h \in {LowBits(0), LowBits(3), LowBits(12)}}
    \cup {Content("ok", 1, 50, 10, 10, h) : h \in {LowBits(0), LowBits(2), LowBits(12)}}
    \cup {Content("ok", 3, 50, 0, 0, h) : h \in {LowBits(0), LowBits(12)}}

\* The k-th frame of a burst: the frames of vidA have hashes far apart and pose
\* scores falling with the name, except the earliest frame, which scores
\* lowest; the frame of vidB is a near-duplicate of vidA's frame 20 and ties
\* with it and with frame 19.
BurstPose == <<1, 10, 9, 9, 8, 7, 6, 5, 4, 3, 9>>
BurstHash(k) == IF k <= 10 THEN FarHash(k - 1) ELSE NearHash(3)
BurstContents(k) == {Content("ok", 1, 100, BurstPose[k], 5, BurstHash(k))}

\* The frames of a ladder: hashes 20 bits apart and, with all ten frames in
\* the folder, final scores on the steps 0.1, 0.2, ..., 0.9.  A step is made
\* of a pose score (0, 0.5 or 1), a sharpness (a third, two thirds or all of
\* the sharpest) and a brightness (0 or 1).
LadderProfile(step) ==
    [pose       |-> IF step >= 7 THEN 10 ELSE IF step >= 5 THEN 5 ELSE 0,
     sharpness  |-> IF step \in {4, 6, 9} THEN 150
                    ELSE IF step \in {3, 5, 8} THEN 100 ELSE 50,
     brightness |-> IF step \in {2, 3, 4} THEN 10 ELSE 0]
\* The steps of the first nine files, in name order; the tenth file is on any
\* of the nine steps.
LadderSteps == <<3, 9, 1, 7, 5, 8, 2, 6, 4>>
LadderContents(k) ==
    {Content("ok", 1, LadderProfile(step).sharpness, LadderProfile(step).pose,
             LadderProfile(step).brightness, SpreadHash(k)) :
        step \in (IF k <= Len(LadderSteps) THEN {LadderSteps[k]} ELSE 1..9)}

FileContents(fam, k) ==
    IF fam = "short" THEN ShortContents
    ELSE IF fam = "burst" THEN BurstContents(k)
    ELSE LadderContents(k)
ImageBudget(fam) ==
    IF fam = "short" THEN MaxImages
    ELSE IF fam = "burst" THEN MaxBurstImages
    ELSE MaxLadderImages
\* A folder holds a leading part of its listing, from which these files (by
\* position) may be missing: any file of a short listing; of a burst the
\* frames 5, 20, 30 and 61 of vidA and the frame of vidB; none of a ladder.
MayBeMissing(fam) ==
    IF fam = "short" THEN 1..Len(ShortFiles)
    ELSE IF fam = "burst" THEN {1, 4, 7, 9, 11}
    ELSE {}

\* <source>_frame_<index>.jpg names under 01_source_frames, ascending.
ShortSourceFrames == <<File("vidA", 0), File("vidA", 5), File("vidB", 5)>>
BurstSourceFrames == <<File("vidA", 8), File("vidA", 40), File("vidA", 100)>>
LadderSourceFrames == <<File("vidA", 50), File("vidB", 50)>>
SourceFrames(fam) ==
    IF fam = "short" THEN ShortSourceFrames
    ELSE IF fam = "burst" THEN BurstSourceFrames
    ELSE LadderSourceFrames

\* The category folders that exist under 03_masked_subjects.
FolderChoices(fam) ==
    IF fam = "short"
    THEN {{"face_and_hair", "upper_body"}}
    ELSE IF fam = "burst"
    THEN {{"face_and_hair"}, {"full_body"}}
    ELSE {{"face_and_hair"}, {"upper_body"}}

\* TOP_N_IMAGES is 100 in the script; the model runs it with small values.
\* TOP_N_IMAGES of 03_score_and_rank in the runs of the two selectors.
RankedTopN == {6, 8}

TopNChoices(fam) == IF fam = "short" THEN {2} ELSE IF fam = "burst" THEN {7} ELSE {5}

VARIABLES
    pc,                        \* where main() is
    family,                    \* the kind of project on disk
    cuda_available,            \* torch.cuda.is_available()
    model_exists,              \* MODEL_PATH.exists()
    TOP_N_IMAGES,              \* the configured size of a selection
    folders,                   \* the category folders that exist
    video_manifest,            \* source video -> highest frame index seen
    scanned,                   \* Pass 0: the source frames scanned, in scan order
    cat_i,                     \* index of the current category (0 before the first)
    read_pos,                  \* Pass 1: position in the listing of the folder
    n_read,                    \* images read so far in this run
    all_category_scores,       \* the scored items of the current category
    max_sharpness,             \* Pass 2: the normalisation denominator
    is_face_category,
    sel_i,                     \* selection pass: items of the sorted list consumed
    top_n_items,               \* the accepted items, in order
    seen_global_hashes,
    seen_source_hashes,
    seen_source_frame_indices,
    decision,                  \* how the last iteration of the selection loop ended
    all_final_results,         \* category -> its audit list
    staging,                   \* category -> the files of its output folder
    warnings,                  \* the warnings written to the console
    image,                     \* Pass 1: what the file read last holds
    v_input,                   \* 03_score_and_rank: the sorted list, N, the category
    v_i,                       \* 03_score_and_rank: items of the list consumed
    v2,                        \* the selection state of 03_score_and_rank_v2.py
    v3                         \* the selection state of 03_score_and_rank_v3.py

vars == <<v_input, v_i, v2, v3, image, warnings, pc, family, cuda_available, model_exists, TOP_N_IMAGES, folders,
          video_manifest, scanned,
          cat_i, read_pos, n_read, all_category_scores, max_sharpness,
          is_face_category, sel_i,
          top_n_items, seen_global_hashes, seen_source_hashes,
          seen_source_frame_indices, decision, all_final_results, staging, warnings>>

EmptyMap == [x \in {} |-> 0]

\* No file of the current folder has been read.
NoImage == [read |-> "none"]

\* No list has been handed to the selectors of 03_score_and_rank.
NoInput == [items |-> <<>>, N |-> 0, category |-> "none"]

\* top_n_items = [], seen_global_hashes = set(), seen_source_hashes =
\* defaultdict(list) before the loop of 03_score_and_rank_v2.py.
V2Start == [top_n_items |-> <<>>, seen_global_hashes |-> {},
            seen_source_hashes |-> EmptyMap]

\* The same, with seen_source_frame_indices and the manifest of Pass 0, before
\* the loop of 03_score_and_rank_v3.py.
V3Start(manifest) ==
    [top_n_items |-> <<>>, seen_global_hashes |-> {},
     seen_source_hashes |-> EmptyMap, seen_source_frame_indices |-> EmptyMap,
     video_manifest |-> manifest]

OlderSelectors == <<v_input, v_i, v2, v3>>

\* The state of 04_score_masked.py before main() runs.
MainInit ==
    /\ pc = "start"
    /\ family \in Families
    /\ cuda_available \in BOOLEAN
    /\ model_exists \in BOOLEAN
    /\ TOP_N_IMAGES \in TopNChoices(family)
    /\ folders \in FolderChoices(family)
    /\ video_manifest = EmptyMap
    /\ scanned = <<>>
    /\ cat_i = 0
    /\ read_pos = 0
    /\ n_read = 0
    /\ all_category_scores = <<>>
    /\ max_sharpness = 0
    /\ is_face_category = FALSE
    /\ sel_i = 0
    /\ top_n_items = <<>>
    /\ seen_global_hashes = {}
    /\ seen_source_hashes = EmptyMap
    /\ seen_source_frame_indices = EmptyMap
    /\ decision = "none"
    /\ all_final_results = EmptyMap
    /\ staging = EmptyMap
    /\ warnings = {}
    /\ image = NoImage

Init ==
    /\ MainInit
    /\ v_input = NoInput
    /\ v_i = 0
    /\ v2 = V2Start
    /\ v3 = V3Start(EmptyMap)

SelectionVars == <<is_face_category, sel_i, top_n_items, seen_global_hashes, seen_source_hashes,
                   seen_source_frame_indices, decision>>
EnvVars == <<family, cuda_available, model_exists, TOP_N_IMAGES, folders>>

(***************************************************************************)
(* Startup: without a GPU or without the model file the run ends at once.  *)
(***************************************************************************)
\* Variant: the model file is not looked for.
StartupCheck_NoModelTest(cuda, model) ==
    IF ~cuda THEN "aborted" ELSE "manifest"

\* The two tests before anything is loaded: each prints and returns.
StartupCheck(cuda, model) ==
    IF ~cuda THEN "aborted"
    ELSE IF ~model THEN "aborted"
    ELSE "manifest"

Startup ==
    /\ pc = "start"
    /\ pc' = StartupCheck(cuda_available, model_exists)
    /\ UNCHANGED <<OlderSelectors, image, EnvVars, video_manifest, scanned, cat_i, read_pos,
                   n_read, all_category_scores, max_sharpness, SelectionVars,
                   all_final_results, staging, warnings>>

(***************************************************************************)
(* Pass 0: the video manifest.                                             *)
(***************************************************************************)
\* d[k] of a defaultdict(int): reading a missing key inserts 0.
DefaultGet(d, k) == IF k \in DOMAIN d THEN d ELSE d @@ (k :> 0)

\* Variant: the frame index is stored without the comparison.
ManifestUpdate_LastWins(m, file) ==
    [DefaultGet(m, file.source_video) EXCEPT ![file.source_video] = file.frame_index]

ManifestUpdate(m, file) ==
    LET m1 == DefaultGet(m, file.source_video)
    IN  IF file.frame_index > m1[file.source_video]
        THEN [m1 EXCEPT ![file.source_video] = file.frame_index]
        ELSE m1

\* One iteration of the Pass 0 loop.  rglob hands out the files in the order
\* of the directory, which is any order.
ScanSourceFrame ==
    /\ pc = "manifest"
    /\ Len(scanned) < MaxSourceFiles
    /\ \E k \in 1..Len(SourceFrames(family)) :
          /\ \A i \in 1..Len(scanned) : scanned[i] # k
          /\ scanned' = Append(scanned, k)
          /\ video_manifest' = ManifestUpdate(video_manifest, SourceFrames(family)[k])
    /\ UNCHANGED <<OlderSelectors, image, pc, EnvVars, cat_i, read_pos, n_read, all_category_scores,
                   max_sharpness, SelectionVars, all_final_results, staging, warnings>>

\* The listing is exhausted; with no source frame at all the run ends.
FinishManifest ==
    /\ pc = "manifest"
    /\ pc' = IF scanned = <<>> THEN "aborted" ELSE "category"
    /\ scanned' = <<>>
    /\ UNCHANGED <<OlderSelectors, image, EnvVars, video_manifest, cat_i, read_pos, n_read,
                   all_category_scores, max_sharpness, SelectionVars,
                   all_final_results, staging, warnings>>

(***************************************************************************)
(* Pass 1: scoring and the two quality gates.                              *)
(***************************************************************************)
\* get_mask_score on a mask with the given number of large contours: the score
\* and the status text (with the count it prints).
get_mask_score(contour_count) ==
    IF contour_count > MAX_CONTOUR_COUNT
    THEN <<0, <<"Fail: Too many objects", contour_count>>>>
    ELSE IF contour_count = 0
    THEN <<0, <<"Fail: Empty mask">>>>
    ELSE <<1, <<"Pass", contour_count>>>>

\* A final score is an exact rational <<num, den>>; <<>> while the item has none.
ZeroScore == <<0, 1>>
NoValue == <<>>

Item(file, h, b, s, p, ms, status, fs) ==
    [source_video |-> file.source_video, frame_index |-> file.frame_index,
     phash |-> h, raw_brightness |-> b, raw_sharpness |-> s, raw_pose |-> p,
     raw_mask_score |-> ms, mask_status |-> status,
     S_sharpness |-> NoValue, final_score |-> fs]

\* Variant: a failed mask test does not end the iteration (no continue).
ScoreImage_NoShortCircuit(file, img) ==
    IF img.read = "unreadable" \/ img.read = "not_4_channel"
    THEN <<>>
    ELSE LET ms == get_mask_score(img.contours)
         IN  IF img.sharpness < MIN_SHARPNESS_THRESHOLD
             THEN <<Item(file, NA, 0, img.sharpness, 0, 1,
                         <<"Fail: Too blurry">>, ZeroScore)>>
             ELSE IF img.read = "error"
             THEN <<>>
             ELSE <<Item(file, img.phash, img.brightness, img.sharpness,
                         img.pose, ms[1], ms[2], NoValue)>>

\* Variant: a file that cannot be read is kept in the list as a rejected item.
ScoreImage_KeepsUnreadable(file, img) ==
    IF img.read = "unreadable"
    THEN <<Item(file, NA, 0, 0, 0, 0, <<"Fail: Could not read">>, ZeroScore)>>
    ELSE IF img.read = "not_4_channel"
    THEN <<>>
    ELSE LET ms == get_mask_score(img.contours)
         IN  IF ms[1] = 0
             THEN <<Item(file, NA, 0, 0, 0, 0, ms[2], ZeroScore)>>
             ELSE IF img.sharpness < MIN_SHARPNESS_THRESHOLD
             THEN <<Item(file, NA, 0, img.sharpness, 0, 1,
                         <<"Fail: Too blurry">>, ZeroScore)>>
             ELSE IF img.read = "error"
             THEN <<>>
             ELSE <<Item(file, img.phash, img.brightness, img.sharpness,
                         img.pose, ms[1], ms[2], NoValue)>>

\* Variant: the sharpness gate is evaluated before the mask test.
ScoreImage_SharpnessFirst(file, img) ==
    IF img.read = "unreadable" \/ img.read = "not_4_channel"
    THEN <<>>
    ELSE LET ms == get_mask_score(img.contours)
         IN  IF img.sharpness < MIN_SHARPNESS_THRESHOLD
             THEN <<Item(file, NA, 0, img.sharpness, 0, 1,
                         <<"Fail: Too blurry">>, ZeroScore)>>
             ELSE IF ms[1] = 0
             THEN <<Item(file, NA, 0, 0, 0, 0, ms[2], ZeroScore)>>
             ELSE IF img.read = "error"
             THEN <<>>
             ELSE <<Item(file, img.phash, img.brightness, img.sharpness,
                         img.pose, ms[1], ms[2], NoValue)>>

\* The body of the Pass 1 loop for one file: the items it appends (none or one).
ScoreImage(file, img) ==
    IF img.read = "unreadable" \/ img.read = "not_4_channel"
    THEN <<>>
    ELSE LET ms == get_mask_score(img.contours)
         IN  IF ms[1] = 0
             THEN <<Item(file, NA, 0, 0, 0, 0, ms[2], ZeroScore)>>
             ELSE IF img.sharpness < MIN_SHARPNESS_THRESHOLD
             THEN <<Item(file, NA, 0, img.sharpness, 0, 1,
                         <<"Fail: Too blurry">>, ZeroScore)>>
             ELSE IF img.read = "error"
             THEN <<>>
             ELSE <<Item(file, img.phash, img.brightness, img.sharpness,
                         img.pose, ms[1], ms[2], NoValue)>>

\* The line the Pass 1 loop writes for a file it gives up on (none or one).
Warning(cat, file, img) ==
    LET line(text) == {[category |-> cat, file |-> file, text |-> text]}
    IN  IF img.read = "unreadable" THEN line("Could not read")
        ELSE IF img.read = "not_4_channel" THEN line("is not 4-channel")
        ELSE IF /\ img.read = "error"
                /\ get_mask_score(img.contours)[1] # 0
                /\ img.sharpness >= MIN_SHARPNESS_THRESHOLD
        THEN line("Error")
        ELSE {}

CatName == CATEGORIES_TO_SCORE[cat_i]

\* The head of the category loop, for a folder that exists.
BeginCategory ==
    /\ pc = "category"
    /\ cat_i < Len(CATEGORIES_TO_SCORE)
    /\ CATEGORIES_TO_SCORE[cat_i + 1] \in folders
    /\ cat_i' = cat_i + 1
    /\ pc' = "pass1"
    /\ all_category_scores' = <<>>
    /\ read_pos' = 0
    /\ UNCHANGED <<OlderSelectors, image, EnvVars, video_manifest, scanned, n_read,
                   max_sharpness, SelectionVars, all_final_results, staging, warnings>>

\* The head of the category loop, for a folder that does not exist.
SkipMissingFolder ==
    /\ pc = "category"
    /\ cat_i < Len(CATEGORIES_TO_SCORE)
    /\ CATEGORIES_TO_SCORE[cat_i + 1] \notin folders
    /\ cat_i' = cat_i + 1
    /\ UNCHANGED <<OlderSelectors, image, pc, EnvVars, video_manifest, scanned, read_pos,
                   n_read, all_category_scores, max_sharpness, SelectionVars,
                   all_final_results, staging, warnings>>

\* One iteration of the Pass 1 loop: the next file of the folder.
ReadImage ==
    /\ pc = "pass1"
    /\ n_read < ImageBudget(family)
    /\ \E k \in 1..Len(CategoryFiles(family)) :
          /\ k > read_pos
          /\ \A j \in (read_pos + 1)..(k - 1) : j \in MayBeMissing(family)
          /\ read_pos' = k
          /\ \E img \in FileContents(family, k) :
                /\ image' = img
                /\ all_category_scores' =
                      all_category_scores \o ScoreImage(CategoryFiles(family)[k], img)
                /\ warnings' = warnings \cup Warning(CatName, CategoryFiles(family)[k], img)
    /\ n_read' = n_read + 1
    /\ UNCHANGED <<OlderSelectors, pc, EnvVars, video_manifest, scanned, cat_i,
                   max_sharpness, SelectionVars, all_final_results, staging>>

(***************************************************************************)
(* Pass 2: normalisation, aggregation and the sort.                        *)
(***************************************************************************)
\* item.get('final_score', 1.0) != 0.0
IsValid(item) == item.final_score = NoValue \/ item.final_score[1] # 0

SeqMax(seq) == CHOOSE m \in {seq[i] : i \in 1..Len(seq)} :
                   \A i \in 1..Len(seq) : seq[i] <= m

\* Variant: the denominator is the sharpness of the first valid item.
MaxSharpness_First(items) ==
    LET valid == SelectSeq(items, IsValid)
        m == valid[1].raw_sharpness
    IN  IF m = 0 THEN 1 ELSE m

\* max over valid_scores of raw_sharpness, 1.0 if that is 0.
MaxSharpness(items) ==
    LET valid == SelectSeq(items, IsValid)
        m == SeqMax([i \in 1..Len(valid) |-> valid[i].raw_sharpness])
    IN  IF m = 0 THEN 1 ELSE m

\* The weighted sum, over the common denominator WeightScale * ScoreScale * max.
FinalScore(item, max) ==
    <<W_POSE * item.raw_pose * max
        + W_SHARPNESS * item.raw_sharpness * ScoreScale
        + W_BRIGHTNESS * item.raw_brightness * max,
      WeightScale * ScoreScale * max>>

\* Variant: Pass 2 does not skip the gated items.
Normalize_All(item, max) ==
    [item EXCEPT !.S_sharpness = <<item.raw_sharpness, max>>,
                 !.final_score = FinalScore(item, max)]

Normalize(item, max) ==
    IF ~IsValid(item)
    THEN item
    ELSE [item EXCEPT !.S_sharpness = <<item.raw_sharpness, max>>,
                      !.final_score = FinalScore(item, max)]

\* a < b on rationals with positive denominators.
ScoreLess(a, b) == a[1] * b[2] < b[1] * a[2]

\* Variant: an item goes before the items of equal score (not stable).
RECURSIVE InsertSorted_BeforeTies(_, _)
InsertSorted_BeforeTies(sorted, item) ==
    IF sorted = <<>>
    THEN <<item>>
    ELSE IF ~ScoreLess(item.final_score, Head(sorted).final_score)
    THEN <<item>> \o sorted
    ELSE <<Head(sorted)>> \o InsertSorted_BeforeTies(Tail(sorted), item)

\* list.sort(key=final_score, reverse=True): descending and stable.
RECURSIVE InsertSorted(_, _)
InsertSorted(sorted, item) ==
    IF sorted = <<>>
    THEN <<item>>
    ELSE IF ScoreLess(Head(sorted).final_score, item.final_score)
    THEN <<item>> \o sorted
    ELSE <<Head(sorted)>> \o InsertSorted(Tail(sorted), item)

RECURSIVE SortByFinalScore(_)
SortByFinalScore(items) ==
    IF items = <<>>
    THEN <<>>
    ELSE InsertSorted(SortByFinalScore(SubSeq(items, 1, Len(items) - 1)),
                      items[Len(items)])

\* Nothing was scored, or nothing passed the gates: the category is left.
SkipCategory ==
    /\ pc = "pass1"
    /\ SelectSeq(all_category_scores, IsValid) = <<>>
    /\ pc' = "category"
    /\ read_pos' = 0
    /\ image' = NoImage
    /\ UNCHANGED <<OlderSelectors, EnvVars, video_manifest, scanned, cat_i, n_read,
                   all_category_scores, max_sharpness, SelectionVars,
                   all_final_results, staging, warnings>>

\* Variant: the set of accepted hashes is carried over from the category before.
FreshGlobalHashes_Kept(previous) == previous

\* seen_global_hashes = set(), inside the category loop.
FreshGlobalHashes(previous) == {}

\* Pass 2, the sort, and the empty state of the selection pass.
NormalizeAndSort ==
    /\ pc = "pass1"
    /\ SelectSeq(all_category_scores, IsValid) # <<>>
    /\ LET max == MaxSharpness(all_category_scores)
       IN  /\ max_sharpness' = max
           /\ all_category_scores' =
                 SortByFinalScore([i \in 1..Len(all_category_scores) |->
                                      Normalize(all_category_scores[i], max)])
    /\ top_n_items' = <<>>
    /\ seen_global_hashes' = FreshGlobalHashes(seen_global_hashes)
    /\ seen_source_hashes' = EmptyMap
    /\ seen_source_frame_indices' = EmptyMap
    /\ is_face_category' = (CatName = "face_and_hair")
    /\ sel_i' = 0
    /\ decision' = "none"
    /\ read_pos' = 0
    /\ image' = NoImage
    /\ pc' = "select"
    /\ UNCHANGED <<OlderSelectors, EnvVars, video_manifest, scanned, cat_i, n_read,
                   all_final_results, staging, warnings>>

(***************************************************************************)
(* The selection pass.                                                     *)
(***************************************************************************)
RECURSIVE SetToSeq(_)
SetToSeq(S) ==
    IF S = {} THEN <<>>
    ELSE LET x == CHOOSE y \in S : TRUE IN <<x>> \o SetToSeq(S \ {x})

\* The orders in which a Python set may hand out its elements: any order.
IterationOrders(S) ==
    IF Cardinality(S) <= MaxPermuted
    THEN {f \in [1..Cardinality(S) -> S] : \A x \in S : \E i \in DOMAIN f : f[i] = x}
    ELSE {SetToSeq(S)}

\* for seen_hash in <hashes>: if (current_hash - seen_hash) < threshold: found; break
RECURSIVE ScanForDupe(_, _, _)
ScanForDupe(hashes, current_hash, threshold) ==
    IF hashes = <<>>
    THEN FALSE
    ELSE IF HashDistance(current_hash, Head(hashes)) < threshold
    THEN TRUE
    ELSE ScanForDupe(Tail(hashes), current_hash, threshold)

\* Variant: filter 1 rejects identical hashes only.
IsGlobalDupe_ExactOnly(order, current_hash) ==
    ScanForDupe(order, current_hash, 1)

\* Variant: filter 1 looks at the first hash the set hands out only.
IsGlobalDupe_FirstOnly(order, current_hash) ==
    order # <<>> /\ HashDistance(current_hash, Head(order)) < GLOBAL_HASH_THRESHOLD

\* Filter 1, over seen_global_hashes in the order the set hands them out.
IsGlobalDupe(order, current_hash) ==
    ScanForDupe(order, current_hash, GLOBAL_HASH_THRESHOLD)

\* Variant: filter 2 compares against the global threshold.
IsSourceDupe_GlobalThreshold(source_hashes, current_hash) ==
    ScanForDupe(source_hashes, current_hash, GLOBAL_HASH_THRESHOLD)

\* Variant: filter 2 compares with the accepted hashes of every source.
IsSourceDupe_AllSources(source_hashes, current_hash) ==
    ScanForDupe(SetToSeq(seen_global_hashes), current_hash,
                INTRA_SOURCE_HASH_THRESHOLD)

\* Filter 2, over the list seen_source_hashes[current_source_video].
IsSourceDupe(source_hashes, current_hash) ==
    ScanForDupe(source_hashes, current_hash, INTRA_SOURCE_HASH_THRESHOLD)

RECURSIVE SeqSum(_)
SeqSum(seq) == IF seq = <<>> THEN 0 ELSE Head(seq) + SeqSum(Tail(seq))

\* Variant: the spread test lets the boundary frame through (>= for >).
TemporalTestPassed_NonStrict(selected_indices, total_frames, current_index) ==
    LET sum == SeqSum(selected_indices)
    IN  IF 2 * sum < TEMPORAL_TEST_COUNT * total_frames
        THEN 2 * TEMPORAL_TEST_COUNT * current_index
                 >= sum + TEMPORAL_TEST_COUNT * total_frames
        ELSE 2 * TEMPORAL_TEST_COUNT * current_index <= sum

\* Variant: a mean exactly at the midpoint counts as early (<= for <).
TemporalTestPassed_MidpointEarly(selected_indices, total_frames, current_index) ==
    LET sum == SeqSum(selected_indices)
    IN  IF 2 * sum <= TEMPORAL_TEST_COUNT * total_frames
        THEN 2 * TEMPORAL_TEST_COUNT * current_index
                 > sum + TEMPORAL_TEST_COUNT * total_frames
        ELSE 2 * TEMPORAL_TEST_COUNT * current_index < sum

\* Variant: with an early mean the frame is compared with the mean alone.
TemporalTestPassed_NoMidpoint(selected_indices, total_frames, current_index) ==
    LET sum == SeqSum(selected_indices)
    IN  IF 2 * sum < TEMPORAL_TEST_COUNT * total_frames
        THEN TEMPORAL_TEST_COUNT * current_index > sum
        ELSE 2 * TEMPORAL_TEST_COUNT * current_index < sum

\* The spread test at 5 accepted frames: avg_index = sum / 5 against
\* midpoint = total_frames / 2, then current_index against
\* (avg_index + total_frames) / 2 or avg_index / 2.
TemporalTestPassed(selected_indices, total_frames, current_index) ==
    LET sum == SeqSum(selected_indices)
    IN  IF 2 * sum < TEMPORAL_TEST_COUNT * total_frames
        THEN 2 * TEMPORAL_TEST_COUNT * current_index
                 > sum + TEMPORAL_TEST_COUNT * total_frames
        ELSE 2 * TEMPORAL_TEST_COUNT * current_index < sum

\* Variant: filter 3 without the hard cap.
TemporalQuota_NoCap(selected_indices, total_frames, current_index) ==
    IF total_frames = 0
    THEN "no_manifest"
    ELSE IF Len(selected_indices) = TEMPORAL_TEST_COUNT
    THEN IF TemporalTestPassed(selected_indices, total_frames, current_index)
         THEN "accept"
         ELSE "temporal_reject"
    ELSE "accept"

\* Filter 3 (non-face categories): how the temporal quota ends for a candidate.
TemporalQuota(selected_indices, total_frames, current_index) ==
    IF total_frames = 0
    THEN "no_manifest"
    ELSE IF Len(selected_indices) = TEMPORAL_TEST_COUNT
    THEN IF TemporalTestPassed(selected_indices, total_frames, current_index)
         THEN "accept"
         ELSE "temporal_reject"
    ELSE IF Len(selected_indices) >= SOURCE_CAP
    THEN "source_cap"
    ELSE "accept"

\* dict.get(key, 0)
ManifestGet(m, v) == IF v \in DOMAIN m THEN m[v] ELSE 0

\* d[k] of a defaultdict(list).
ListOf(d, k) == IF k \in DOMAIN d THEN d[k] ELSE <<>>
TouchList(d, k) == IF k \in DOMAIN d THEN d ELSE d @@ (k :> <<>>)

\* Variant: the loop does not move on to the next item.
NextIndex_Stuck(i) == i

\* Variant: the loop stops one item late (> for >=).
SelectionFull_OffByOne(n) == n > TOP_N_IMAGES

\* if len(top_n_items) >= TOP_N_IMAGES: break
SelectionFull(n) == n >= TOP_N_IMAGES

\* The for loop hands out the items of the sorted list one after the other.
NextIndex(i) == i + 1

\* Variant: the intra-source filter runs before the global one.
Filter_SourceFirst(order, item, face) ==
    LET current_hash == hex_to_hash(item.phash)
        v == item.source_video
    IN  IF IsSourceDupe(ListOf(seen_source_hashes, v), current_hash)
        THEN "source_dupe"
        ELSE IF IsGlobalDupe(order, current_hash)
        THEN "global_dupe"
        ELSE IF face
        THEN "accept"
        ELSE TemporalQuota(ListOf(seen_source_frame_indices, v),
                           ManifestGet(video_manifest, v), item.frame_index)

\* Variant: the temporal quota is applied in the face category too.
Filter_QuotaForAll(order, item, face) ==
    LET current_hash == hex_to_hash(item.phash)
        v == item.source_video
    IN  IF IsGlobalDupe(order, current_hash)
        THEN "global_dupe"
        ELSE IF IsSourceDupe(ListOf(seen_source_hashes, v), current_hash)
        THEN "source_dupe"
        ELSE TemporalQuota(ListOf(seen_source_frame_indices, v),
                           ManifestGet(video_manifest, v), item.frame_index)

\* The three filters on a candidate that passed the gates: the filter that
\* rejects it, or "accept".
Filter(order, item, face) ==
    LET current_hash == hex_to_hash(item.phash)
        v == item.source_video
    IN  IF IsGlobalDupe(order, current_hash)
        THEN "global_dupe"
        ELSE IF IsSourceDupe(ListOf(seen_source_hashes, v), current_hash)
        THEN "source_dupe"
        ELSE IF face
        THEN "accept"
        ELSE TemporalQuota(ListOf(seen_source_frame_indices, v),
                           ManifestGet(video_manifest, v), item.frame_index)

\* Variant: the manifest is read with video_manifest[key], which inserts a 0.
ManifestAfterGet_Inserting(m, v) == DefaultGet(m, v)

\* video_manifest.get(key, 0) leaves the manifest as it is.
ManifestAfterGet(m, v) == m

\* Variant: the hash of a candidate is remembered whatever becomes of it.
GlobalHashesAfter_Always(d, hashes, current_hash) == hashes \cup {current_hash}

\* seen_global_hashes after an iteration that ended as d: add() is reached
\* by an accepted candidate only.
GlobalHashesAfter(d, hashes, current_hash) ==
    IF d = "accept" THEN hashes \cup {current_hash} ELSE hashes

\* Variant: the accepted item is put in front of the list.
Accept_AtFront(items, item) == <<item>> \o items

\* top_n_items.append(item)
Accept(items, item) == Append(items, item)

\* Variant: the frame index of an accepted item is not remembered.
FrameIndicesAfter_Forgotten(face, indices, v, frame_index) == indices

\* seen_source_frame_indices after an acceptance: the append is under
\* 'if not is_face_category'.
FrameIndicesAfter(face, indices, v, frame_index) ==
    IF face THEN indices ELSE [indices EXCEPT ![v] = Append(@, frame_index)]

\* One iteration of the selection loop, on the next item of the sorted list.
SelectStep ==
    /\ pc = "select"
    /\ sel_i < Len(all_category_scores)
    /\ ~SelectionFull(Len(top_n_items))
    /\ sel_i' = NextIndex(sel_i)
    /\ LET item == all_category_scores[sel_i + 1]
           v == item.source_video
       IN  IF item.final_score[1] = 0
           THEN /\ decision' = "skip_gated"
                /\ UNCHANGED <<top_n_items, seen_global_hashes, seen_source_hashes,
                               seen_source_frame_indices, video_manifest>>
           ELSE \E order \in IterationOrders(seen_global_hashes) :
                  LET d == Filter(order, item, is_face_category)
                      current_hash == hex_to_hash(item.phash)
                      \* the lists the filters read are created on first use
                      sh == IF d = "global_dupe" THEN seen_source_hashes
                            ELSE TouchList(seen_source_hashes, v)
                      sf == IF d \in {"global_dupe", "source_dupe"} \/ is_face_category
                            THEN seen_source_frame_indices
                            ELSE TouchList(seen_source_frame_indices, v)
                  IN  /\ decision' = d
                      /\ seen_global_hashes' =
                            GlobalHashesAfter(d, seen_global_hashes, current_hash)
                      /\ video_manifest' =
                            IF d \in {"global_dupe", "source_dupe"} \/ is_face_category
                            THEN video_manifest
                            ELSE ManifestAfterGet(video_manifest, v)
                      /\ IF d = "accept"
                         THEN /\ top_n_items' = Accept(top_n_items, item)
                              /\ seen_source_hashes' =
                                    [sh EXCEPT ![v] = Append(@, current_hash)]
                              /\ seen_source_frame_indices' =
                                    FrameIndicesAfter(is_face_category, sf, v,
                                                      item.frame_index)
                         ELSE /\ top_n_items' = top_n_items
                              /\ seen_source_hashes' = sh
                              /\ seen_source_frame_indices' = sf
    /\ UNCHANGED <<OlderSelectors, image, pc, EnvVars, scanned, cat_i,
                   read_pos, n_read, all_category_scores, max_sharpness,
                   is_face_category, all_final_results, staging, warnings>>

\* Variant: the ranks are the positions enumerate hands out (from 0).
Rank_ZeroBased(i) == i

\* rank = i + 1 for the i of enumerate(top_n_items).
Rank(i) == i + 1

\* The destination folder after rmtree, mkdir and the copies: one file
\* <rank>_<name> per selected item (with its caption file, when there is one).
Staged(items) ==
    {[rank |-> Rank(i), file |-> File(items[i + 1].source_video,
                                      items[i + 1].frame_index)] :
        i \in 0..(Len(items) - 1)}

\* The loop ends (the list is exhausted, or the selection is full: break); the
\* audit list is recorded and the selected files are copied under their ranks.
FinishSelection ==
    /\ pc = "select"
    /\ sel_i = Len(all_category_scores) \/ SelectionFull(Len(top_n_items))
    /\ decision' = IF sel_i < Len(all_category_scores) THEN "break" ELSE "exhausted"
    /\ all_final_results' =
          [c \in DOMAIN all_final_results \cup {CatName} |->
              IF c = CatName THEN all_category_scores ELSE all_final_results[c]]
    /\ staging' =
          [c \in DOMAIN staging \cup {CatName} |->
              IF c = CatName THEN Staged(top_n_items) ELSE staging[c]]
    /\ pc' = "category"
    /\ UNCHANGED <<OlderSelectors, image, EnvVars, video_manifest, scanned, cat_i, read_pos,
                   n_read, all_category_scores, max_sharpness, is_face_category,
                   sel_i, top_n_items, seen_global_hashes, seen_source_hashes,
                   seen_source_frame_indices, warnings>>

\* After the last category: the JSON and HTML reports are written.
SaveReport ==
    /\ pc = "category"
    /\ cat_i = Len(CATEGORIES_TO_SCORE)
    /\ pc' = "done"
    /\ UNCHANGED <<OlderSelectors, image, EnvVars, video_manifest, scanned, cat_i, read_pos,
                   n_read, all_category_scores, max_sharpness, SelectionVars,
                   all_final_results, staging, warnings>>

Next ==
    \/ Startup
    \/ ScanSourceFrame
    \/ FinishManifest
    \/ BeginCategory
    \/ SkipMissingFolder
    \/ ReadImage
    \/ SkipCategory
    \/ NormalizeAndSort
    \/ SelectStep
    \/ FinishSelection
    \/ SaveReport

Spec == Init /\ [][Next]_vars

(***************************************************************************)
(* The selectors of 03_score_and_rank_v2.py (two stages) and of            *)
(* 03_score_and_rank_v3.py (three stages), run side by side on one sorted  *)
(* list.                                                                   *)
(***************************************************************************)
\* The items of a category from best to worst: five frames of vidA, a sixth
\* from between them, a frame of vidB whose hash is 2 bits from the sixth's,
\* two late frames and an early frame of vidA, and a frame of vidB.
RankedPool ==
    <<[source_video |-> "vidA", frame_index |-> 10, phash |-> FarHash(0)],
      [source_video |-> "vidA", frame_index |-> 20, phash |-> FarHash(1)],
      [source_video |-> "vidA", frame_index |-> 30, phash |-> FarHash(2)],
      [source_video |-> "vidA", frame_index |-> 40, phash |-> FarHash(3)],
      [source_video |-> "vidA", frame_index |-> 50, phash |-> FarHash(4)],
      [source_video |-> "vidA", frame_index |-> 35, phash |-> FarHash(5)],
      [source_video |-> "vidB", frame_index |-> 5, phash |-> NearHash(5)],
      [source_video |-> "vidA", frame_index |-> 90, phash |-> FarHash(6)],
      [source_video |-> "vidA", frame_index |-> 95, phash |-> FarHash(7)],
      [source_video |-> "vidA", frame_index |-> 5, phash |-> FarHash(8)],
      [source_video |-> "vidB", frame_index |-> 7, phash |-> FarHash(9)]>>

\* The items of the pool at the positions of P, in the order of the pool.
RECURSIVE Ranked(_, _)
Ranked(P, k) ==
    IF k = 0 THEN <<>>
    ELSE Ranked(P, k - 1) \o (IF k \in P THEN <<RankedPool[k]>> ELSE <<>>)

\* The folder holds the first two frames and any of the others.
RankedLists ==
    {Ranked({1, 2} \cup P, MaxRankedItems) : P \in SUBSET (3..MaxRankedItems)}

V3_CATEGORIES == {"a_face_n_hair", "b_upper_body", "c_full_body"}

\* Pass 0 of 03_score_and_rank_v3.py over the files of the category folders:
\* the highest frame index per source video.
V3Manifest(files) ==
    [v \in {f.source_video : f \in files} |->
        CHOOSE m \in {f.frame_index : f \in {g \in files : g.source_video = v}} :
            \A g \in files : g.source_video = v => g.frame_index <= m]

\* The files the other category folders may hold: none, or frame 100 of vidA.
OtherFolders == {{}, {File("vidA", 100)}}

\* Filter 1 of both scripts.
V_IsGlobalDupe(hashes, current_hash) ==
    \E seen_hash \in hashes :
        HashDistance(current_hash, seen_hash) < GLOBAL_HASH_THRESHOLD

\* The acceptance of both scripts, on the fields they share.
V_Accept(s, item) ==
    LET v == item.source_video
        current_hash == hex_to_hash(item.phash)
    IN  [s EXCEPT !.top_n_items = Append(@, item),
                  !.seen_global_hashes = @ \cup {current_hash},
                  !.seen_source_hashes =
                      [TouchList(@, v) EXCEPT ![v] = Append(@, current_hash)]]

\* One iteration of the loop of 03_score_and_rank_v2.py (after the break the
\* loop is over and the state stays as it is).
V2Iteration(s, item, N) ==
    LET v == item.source_video
        current_hash == hex_to_hash(item.phash)
    IN  IF Len(s.top_n_items) >= N THEN s
        ELSE IF V_IsGlobalDupe(s.seen_global_hashes, current_hash) THEN s
        ELSE IF ScanForDupe(ListOf(s.seen_source_hashes, v), current_hash,
                            INTRA_SOURCE_HASH_THRESHOLD)
        THEN s
        ELSE V_Accept(s, item)

\* Variant: the temporal test is applied from 4 accepted frames on.
V3Quota_FromFour(selected_indices, manifest, v, current_index) ==
    IF Len(selected_indices) >= 4
    THEN IF manifest[v] = 0 THEN FALSE
         ELSE TemporalTestPassed(selected_indices, manifest[v], current_index)
    ELSE TRUE

\* Filter 3 of 03_score_and_rank_v3.py: TRUE when the candidate gets through.
\* manifest is the manifest after video_manifest[current_source_video].
V3Quota(selected_indices, manifest, v, current_index) ==
    IF Len(selected_indices) = 5
    THEN IF manifest[v] = 0 THEN FALSE
         ELSE TemporalTestPassed(selected_indices, manifest[v], current_index)
    ELSE IF Len(selected_indices) >= 6 THEN FALSE
    ELSE TRUE

\* One iteration of the loop of 03_score_and_rank_v3.py.
V3Iteration(s, item, N, face) ==
    LET v == item.source_video
        current_hash == hex_to_hash(item.phash)
        selected_indices == ListOf(s.seen_source_frame_indices, v)
        manifest == IF Len(selected_indices) = 5
                    THEN DefaultGet(s.video_manifest, v)
                    ELSE s.video_manifest
        read == [s EXCEPT !.video_manifest = manifest]
        accepted == V_Accept(read, item)
    IN  IF Len(s.top_n_items) >= N THEN s
        ELSE IF V_IsGlobalDupe(s.seen_global_hashes, current_hash) THEN s
        ELSE IF ScanForDupe(ListOf(s.seen_source_hashes, v), current_hash,
                            INTRA_SOURCE_HASH_THRESHOLD)
        THEN s
        ELSE IF face THEN accepted
        ELSE IF ~V3Quota(selected_indices, manifest, v, item.frame_index)
        THEN read
        ELSE [accepted EXCEPT !.seen_source_frame_indices =
                 [TouchList(@, v) EXCEPT ![v] = Append(@, item.frame_index)]]

\* Both scripts are handed the same sorted list, N and category;
\* 04_score_masked.py does not run.
SelectorsInit ==
    /\ MainInit
    /\ family = "short"
    /\ cuda_available
    /\ model_exists
    /\ v_i = 0
    /\ v2 = V2Start
    /\ \E items \in RankedLists, other \in OtherFolders, N \in RankedTopN,
          cat \in V3_CATEGORIES :
          /\ v_input = [items |-> items, N |-> N, category |-> cat]
          /\ v3 = V3Start(V3Manifest({File(items[i].source_video, items[i].frame_index) : i \in 1..Len(items)}
                                      \cup other))

\* Both loops take the next item of the list.
SelectorsStep ==
    /\ v_i < Len(v_input.items)
    /\ v_i' = v_i + 1
    /\ v2' = V2Iteration(v2, v_input.items[v_i + 1], v_input.N)
    /\ v3' = V3Iteration(v3, v_input.items[v_i + 1], v_input.N,
                         v_input.category = "a_face_n_hair")
    /\ UNCHANGED <<v_input, image, warnings, pc, EnvVars, video_manifest, scanned,
                   cat_i, read_pos, n_read, all_category_scores, max_sharpness,
                   SelectionVars, all_final_results, staging>>

SelectorsSpec == SelectorsInit /\ [][SelectorsStep]_vars

(***************************************************************************)
(* Properties.                                                             *)
(***************************************************************************)
HashOf(item) == hex_to_hash(item.phash)

AcceptedFrom(v) == {i \in 1..Len(top_n_items) : top_n_items[i].source_video = v}

\* An item of the sorted list that the filters would still let through.
StillQualifies(item) ==
    /\ item.final_score[1] # 0
    /\ \A i \in 1..Len(top_n_items) :
          HashDistance(HashOf(item), HashOf(top_n_items[i]))
              >= INTRA_SOURCE_HASH_THRESHOLD

\* C1: the selection never holds more than TOP_N_IMAGES items, in any state of
\* the pass of any category, however many qualifying candidates are left.
C1_AtMostN == Len(top_n_items) <= TOP_N_IMAGES

\* The loop broke on a full selection while a qualifying candidate was left.
C1_Witness ==
    /\ decision = "break"
    /\ Len(top_n_items) = TOP_N_IMAGES
    /\ \E j \in (sel_i + 1)..Len(all_category_scores) :
          StillQualifies(all_category_scores[j])

\* C2: any two accepted items of a category that come from different source
\* videos are at hash distance GLOBAL_HASH_THRESHOLD or more.
C2_GlobalDistance ==
    \A i, j \in 1..Len(top_n_items) :
        (i < j /\ top_n_items[i].source_video # top_n_items[j].source_video)
            => HashDistance(HashOf(top_n_items[i]), HashOf(top_n_items[j]))
                   >= GLOBAL_HASH_THRESHOLD

\* Two sources, accepted at exactly the threshold distance.
C2_Witness ==
    \E i, j \in 1..Len(top_n_items) :
        /\ top_n_items[i].source_video # top_n_items[j].source_video
        /\ HashDistance(HashOf(top_n_items[i]), HashOf(top_n_items[j]))
               = GLOBAL_HASH_THRESHOLD

\* C3: any two accepted items of a category that come from the same source
\* video are at hash distance INTRA_SOURCE_HASH_THRESHOLD or more.
C3_IntraSourceDistance ==
    \A i, j \in 1..Len(top_n_items) :
        (i < j /\ top_n_items[i].source_video = top_n_items[j].source_video)
            => HashDistance(HashOf(top_n_items[i]), HashOf(top_n_items[j]))
                   >= INTRA_SOURCE_HASH_THRESHOLD

\* One source, two frames accepted at exactly the threshold distance.
C3_Witness ==
    \E i, j \in 1..Len(top_n_items) :
        /\ i < j
        /\ top_n_items[i].source_video = top_n_items[j].source_video
        /\ HashDistance(HashOf(top_n_items[i]), HashOf(top_n_items[j]))
               = INTRA_SOURCE_HASH_THRESHOLD

\* C4: in a non-face category no source video has more than 6 accepted items,
\* so that from 6 on every further candidate of the source is rejected.
C4_SourceCap ==
    ~is_face_category =>
        \A v \in Videos : Cardinality(AcceptedFrom(v)) <= SOURCE_CAP

\* A seventh candidate of a source, distinct from the six accepted, was turned
\* away by the cap.
C4_Witness ==
    /\ ~is_face_category
    /\ pc = "select"
    /\ decision = "source_cap"
    /\ Cardinality(AcceptedFrom(all_category_scores[sel_i].source_video)) = SOURCE_CAP

\* What the gates decide, read from the metrics recorded on the item.
GateRejected(item) ==
    item.raw_mask_score = 0 \/ item.raw_sharpness < MIN_SHARPNESS_THRESHOLD

\* Pass 2 has run on the current list.
Aggregated == pc = "select" \/ (pc \in {"category", "done"} /\ decision \in {"break", "exhausted"})

\* C5: an item's final score is 0 exactly when a gate rejected it: gated items
\* carry 0 from Pass 1 on, items that passed both gates carry a score above 0
\* once aggregated, and no accepted item has score 0.
C5_ZeroIffGated ==
    /\ \A i \in 1..Len(all_category_scores) :
          LET item == all_category_scores[i]
          IN  /\ GateRejected(item) => item.final_score = ZeroScore
              /\ (~GateRejected(item) /\ Aggregated) =>
                     (item.final_score # NoValue /\ item.final_score[1] > 0)
              /\ (~GateRejected(item) /\ ~Aggregated) => item.final_score # ZeroScore
    /\ \A i \in 1..Len(top_n_items) :
          top_n_items[i].final_score[1] > 0 /\ ~GateRejected(top_n_items[i])

\* The selector skipped a gated item of a list that also holds an accepted item
\* whose pose and brightness are 0.
C5_Witness ==
    /\ pc = "select"
    /\ decision = "skip_gated"
    /\ \E i \in 1..Len(top_n_items) :
          top_n_items[i].raw_pose = 0 /\ top_n_items[i].raw_brightness = 0

\* The mask test of an item failed: its status text says so, or prints a count
\* above MAX_CONTOUR_COUNT.
TopologyFailed(item) ==
    \/ item.mask_status[1] = "Fail: Empty mask"
    \/ Len(item.mask_status) = 2 /\ item.mask_status[2] > MAX_CONTOUR_COUNT

PassedBothGates(item) ==
    ~TopologyFailed(item) /\ item.raw_sharpness >= MIN_SHARPNESS_THRESHOLD

Survivors == {i \in 1..Len(all_category_scores) :
                 PassedBothGates(all_category_scores[i])}

\* C6: an item that failed the mask test has final score 0 and no normalised
\* sharpness, and the denominator of Pass 2 is the largest raw sharpness among
\* the items that passed both gates, whatever the gated images looked like.
C6_GatedOutOfNormalization ==
    /\ \A i \in 1..Len(all_category_scores) :
          TopologyFailed(all_category_scores[i]) =>
              /\ all_category_scores[i].final_score = ZeroScore
              /\ all_category_scores[i].S_sharpness = NoValue
    /\ pc = "select" =>
          /\ Survivors # {}
          /\ \A i \in Survivors : all_category_scores[i].raw_sharpness <= max_sharpness
          /\ \E i \in Survivors : all_category_scores[i].raw_sharpness = max_sharpness
          /\ \A i \in Survivors :
                all_category_scores[i].S_sharpness =
                    <<all_category_scores[i].raw_sharpness, max_sharpness>>

\* A list with a mask of 4 regions (one of the two such images has sharpness
\* 200) normalised by the sharpness 50 of a survivor.
C6_Witness ==
    /\ pc = "select"
    /\ max_sharpness = MIN_SHARPNESS_THRESHOLD
    /\ \E i \in 1..Len(all_category_scores) :
          all_category_scores[i].mask_status = <<"Fail: Too many objects", 4>>

\* C7: after Pass 2 every normalised sharpness lies in [0,1] and the largest
\* one over the surviving items is 1, unless all raw values are 0, when the
\* denominator is 1 and all normalised values are 0.
C7_NormalizedMaxIsOne ==
    pc = "select" =>
        /\ \A i \in Survivors :
              LET S == all_category_scores[i].S_sharpness
              IN  S # NoValue /\ S[2] > 0 /\ 0 <= S[1] /\ S[1] <= S[2]
        /\ IF \A i \in Survivors : all_category_scores[i].raw_sharpness = 0
           THEN /\ max_sharpness = 1
                /\ \A i \in Survivors : all_category_scores[i].S_sharpness[1] = 0
           ELSE \E i \in Survivors :
                   all_category_scores[i].S_sharpness[1]
                       = all_category_scores[i].S_sharpness[2]

\* Two survivors, one normalised to 1 and one below 1.
C7_Witness ==
    /\ pc = "select"
    /\ \E i, j \in Survivors :
          /\ all_category_scores[i].S_sharpness[1] = all_category_scores[i].S_sharpness[2]
          /\ all_category_scores[j].S_sharpness[1] < all_category_scores[j].S_sharpness[2]

\* The selection as a function of the sorted list, the manifest, TOP_N_IMAGES
\* and the kind of category alone: the items accepted among the first k.
RECURSIVE GreedySelection(_, _)
GreedySelection(items, k) ==
    IF k = 0
    THEN <<>>
    ELSE LET acc == GreedySelection(items, k - 1)
             item == items[k]
             same == {i \in 1..Len(acc) : acc[i].source_video = item.source_video}
             frames == SeqSum([i \in 1..Len(acc) |->
                                 IF i \in same THEN acc[i].frame_index ELSE 0])
             total == ManifestGet(video_manifest, item.source_video)
             cur == HashOf(item)
             \* mean of 5 frames below total / 2; the frame above
             \* (mean + total) / 2, or else below mean / 2
             spread == IF 2 * frames < 5 * total
                       THEN 10 * item.frame_index > frames + 5 * total
                       ELSE 10 * item.frame_index < frames
         IN  IF Len(acc) >= TOP_N_IMAGES \/ item.final_score[1] = 0
             THEN acc
             ELSE IF \E i \in 1..Len(acc) :
                        HashDistance(HashOf(acc[i]), cur) < GLOBAL_HASH_THRESHOLD
             THEN acc
             ELSE IF \E i \in same :
                        HashDistance(HashOf(acc[i]), cur) < INTRA_SOURCE_HASH_THRESHOLD
             THEN acc
             ELSE IF is_face_category
             THEN Append(acc, item)
             ELSE IF total = 0 \/ Cardinality(same) >= 6
                     \/ (Cardinality(same) = 5 /\ ~spread)
             THEN acc
             ELSE Append(acc, item)

\* C8: the selection is deterministic: after every prefix of the pass the
\* accepted list is the one function of the sorted list, the manifest and
\* TOP_N_IMAGES, in whatever order seen_global_hashes hands out its hashes.
C8_Deterministic ==
    pc = "select" => top_n_items = GreedySelection(all_category_scores, sel_i)

\* A candidate met a set of several hashes, of which it duplicates one, so that
\* the scan ends early or late with the order.
C8_Witness ==
    /\ pc = "select"
    /\ decision = "global_dupe"
    /\ Cardinality(seen_global_hashes) >= 2
    /\ Cardinality(seen_global_hashes) <= MaxPermuted
    /\ \E h \in seen_global_hashes :
          HashDistance(h, HashOf(all_category_scores[sel_i])) >= GLOBAL_HASH_THRESHOLD

FileOf(item) == File(item.source_video, item.frame_index)

\* The status of the candidate at position i of the sorted list.
Status(i) ==
    IF \E r \in 1..Len(top_n_items) : FileOf(top_n_items[r]) = FileOf(all_category_scores[i])
    THEN "ACCEPTED"
    ELSE IF all_category_scores[i].final_score = ZeroScore \/ i <= sel_i
    THEN "REJECTED"
    ELSE "PENDING"

GatedFiles == {FileOf(all_category_scores[i]) : i \in
                  {j \in 1..Len(all_category_scores) :
                      all_category_scores[j].final_score = ZeroScore}}

RankedFiles == {[rank |-> r, file |-> FileOf(top_n_items[r])] : r \in 1..Len(top_n_items)}

\* C9: a candidate's status changes at most once and never back: each step of
\* the selection pass takes exactly the next candidate of the unchanged sorted
\* list, accepted stays accepted, rejected (gated included) stays rejected,
\* and the files copied for a category are those accepted and stay as copied.
C9_Step ==
    /\ (pc = "pass1" /\ pc' # "pass1") => GatedFiles \subseteq GatedFiles'
    /\ (pc = "select" /\ pc' = "select") =>
          /\ all_category_scores' = all_category_scores
          /\ sel_i' = sel_i + 1
          /\ \/ top_n_items' = top_n_items
             \/ top_n_items' = Append(top_n_items, all_category_scores[sel_i + 1])
          /\ \A i \in 1..Len(all_category_scores) :
                /\ Status(i) = "ACCEPTED" => Status(i)' = "ACCEPTED"
                /\ Status(i) = "REJECTED" => Status(i)' = "REJECTED"
    /\ (pc = "select" /\ pc' # "select") =>
          /\ CatName \notin DOMAIN staging
          /\ staging'[CatName] = RankedFiles
    /\ \A c \in DOMAIN staging : c \in DOMAIN staging' /\ staging'[c] = staging[c]

C9_OneShot == [][C9_Step]_vars

\* A pass with an accepted, a rejected and a pending candidate.
C9_Witness ==
    /\ pc = "select"
    /\ \E i, j, k \in 1..Len(all_category_scores) :
          /\ Status(i) = "ACCEPTED"
          /\ Status(j) = "REJECTED" /\ all_category_scores[j].final_score # ZeroScore
          /\ Status(k) = "PENDING"

\* The two candidates of the scenario: one source, hashes 2 bits apart, final
\* scores 0.9 and 0.85, both evaluated.
C10_Scenario ==
    /\ pc = "select"
    /\ Len(all_category_scores) = 2
    /\ sel_i = 2
    /\ LET a == all_category_scores[1]
           b == all_category_scores[2]
       IN  /\ a.source_video = b.source_video
           /\ 10 * a.final_score[1] = 9 * a.final_score[2]
           /\ 100 * b.final_score[1] = 85 * b.final_score[2]
           /\ HashDistance(HashOf(a), HashOf(b)) = 2

\* C10 as stated: only the higher-scored candidate is accepted and the second
\* is rejected as source_duplicate.
C10_Original ==
    C10_Scenario =>
        /\ top_n_items = <<all_category_scores[1]>>
        /\ decision = "source_dupe"

\* C10 as amended: the second candidate is rejected by the global
\* near-duplicate test when the first was accepted (face category, or a
\* nonzero manifest value for the source); with no or a zero manifest value
\* in a non-face category neither is accepted.
C10_Amended ==
    C10_Scenario =>
        IF is_face_category
              \/ ManifestGet(video_manifest, all_category_scores[1].source_video) # 0
        THEN top_n_items = <<all_category_scores[1]>> /\ decision = "global_dupe"
        ELSE top_n_items = <<>> /\ decision = "no_manifest"

\* The scenario, with the first accepted and the second a global duplicate.
C10_Witness ==
    /\ C10_Scenario
    /\ top_n_items = <<all_category_scores[1]>>
    /\ decision = "global_dupe"

\* C15: without the compute device or without the model file the run ends
\* before any work: no manifest entry, no file scanned, read, scored or
\* selected, no output folder written, no report saved.
C15_AbortBeforeWork ==
    ~(cuda_available /\ model_exists) =>
        /\ pc \in {"start", "aborted"}
        /\ video_manifest = EmptyMap
        /\ scanned = <<>>
        /\ n_read = 0
        /\ all_category_scores = <<>>
        /\ top_n_items = <<>>
        /\ all_final_results = EmptyMap
        /\ staging = EmptyMap

\* The run ended at the second test: a GPU, but no model file.
C15_Witness == pc = "aborted" /\ cuda_available /\ ~model_exists

ScannedFiles == {SourceFrames(family)[scanned[i]] : i \in 1..Len(scanned)}

SetMax(S) == CHOOSE m \in S : \A x \in S : x <= m

\* source video -> the highest frame index among the files of S.
MaxManifest(S) ==
    [v \in {f.source_video : f \in S} |->
        SetMax({f.frame_index : f \in {g \in S : g.source_video = v}})]

\* The loop of Pass 0 over a batch of files, in the order of the batch.
RECURSIVE ManifestOf(_)
ManifestOf(batch) ==
    IF batch = <<>>
    THEN EmptyMap
    ELSE ManifestUpdate(ManifestOf(SubSeq(batch, 1, Len(batch) - 1)),
                        SourceFrames(family)[batch[Len(batch)]])

\* Two manifests merged by max.
MergeMax(a, b) ==
    [v \in DOMAIN a \cup DOMAIN b |->
        IF v \notin DOMAIN b THEN a[v]
        ELSE IF v \notin DOMAIN a THEN b[v]
        ELSE IF a[v] >= b[v] THEN a[v] ELSE b[v]]

\* C17: in whatever order the source frames are scanned, the manifest maps
\* every source video seen to its highest frame index, and scanning the files
\* in two batches and merging the two manifests by max gives the same map.
C17_OrderIndependent ==
    pc = "manifest" =>
        /\ video_manifest = MaxManifest(ScannedFiles)
        /\ \A i \in 0..Len(scanned) :
              MergeMax(ManifestOf(SubSeq(scanned, 1, i)),
                       ManifestOf(SubSeq(scanned, i + 1, Len(scanned))))
                  = video_manifest

\* Two frames of one source video, the later frame scanned first.
C17_Witness ==
    /\ pc = "manifest"
    /\ Len(scanned) = 2
    /\ LET f == SourceFrames(family)[scanned[1]]
           g == SourceFrames(family)[scanned[2]]
       IN  f.source_video = g.source_video /\ f.frame_index > g.frame_index

\* The loop of the selection pass takes the next item of the sorted list.
Evaluates == pc = "select" /\ pc' = "select" /\ sel_i' = sel_i + 1

NextItem == all_category_scores[sel_i + 1]

\* The frame indices accepted so far from source video v, in order.
RECURSIVE FramesOf(_, _)
FramesOf(acc, v) ==
    IF acc = <<>>
    THEN <<>>
    ELSE FramesOf(SubSeq(acc, 1, Len(acc) - 1), v)
             \o (IF acc[Len(acc)].source_video = v
                 THEN <<acc[Len(acc)].frame_index>> ELSE <<>>)

\* The item passed the gates and is no near-duplicate of an accepted item.
PassesDuplicateTests(item) ==
    /\ item.final_score[1] # 0
    /\ \A i \in 1..Len(top_n_items) :
          HashDistance(HashOf(item), HashOf(top_n_items[i])) >=
              (IF top_n_items[i].source_video = item.source_video
               THEN INTRA_SOURCE_HASH_THRESHOLD ELSE GLOBAL_HASH_THRESHOLD)

\* C12: in a non-face category, for a source with manifest value 100: when its
\* 5 accepted frames have mean index 20, the next candidate of the source is
\* accepted exactly when its frame index is above 60 and is rejected by the
\* temporal test otherwise (index 30 in particular); once 6 are accepted, the
\* next candidate is rejected by the cap.
C12_Step ==
    LET frames == FramesOf(top_n_items, NextItem.source_video)
    IN  (/\ Evaluates
         /\ ~is_face_category
         /\ PassesDuplicateTests(NextItem)
         /\ ManifestGet(video_manifest, NextItem.source_video) = 100) =>
            /\ (Len(frames) = 5 /\ SeqSum(frames) = 5 * 20) =>
                   /\ NextItem.frame_index = 30 => decision' = "temporal_reject"
                   /\ NextItem.frame_index > 60 =>
                          /\ decision' = "accept"
                          /\ top_n_items' = Append(top_n_items, NextItem)
                   /\ NextItem.frame_index <= 60 =>
                          /\ decision' = "temporal_reject"
                          /\ top_n_items' = top_n_items
            /\ Len(frames) = 6 =>
                   /\ decision' = "source_cap"
                   /\ top_n_items' = top_n_items

C12_TemporalScenario == [][C12_Step]_vars

\* Frames 18..22 accepted, 30 and 60 turned away, 61 accepted as sixth, and the
\* next candidate stopped by the cap.
C12_Witness ==
    /\ pc = "select"
    /\ ~is_face_category
    /\ decision = "source_cap"
    /\ ManifestGet(video_manifest, "vidA") = 100
    /\ FramesOf(top_n_items, "vidA") = <<18, 19, 20, 21, 22, 61>>
    /\ \E i, j \in 1..sel_i :
          /\ all_category_scores[i].frame_index = 30
          /\ all_category_scores[j].frame_index = 60
          /\ all_category_scores[i].source_video = "vidA"
          /\ all_category_scores[j].source_video = "vidA"

\* C13: in the face category a candidate that passed the gates and both
\* duplicate tests is accepted while the selection is not full, whatever the
\* number accepted from its source and whatever the manifest holds, and
\* seen_source_frame_indices stays empty.
C13_Step ==
    /\ (Evaluates /\ is_face_category /\ PassesDuplicateTests(NextItem)) =>
           /\ decision' = "accept"
           /\ top_n_items' = Append(top_n_items, NextItem)
    /\ is_face_category' => seen_source_frame_indices' = EmptyMap

C13_FaceExempt == [][C13_Step]_vars

\* A seventh frame of one source accepted in the face category.
C13_Witness ==
    /\ pc = "select"
    /\ is_face_category
    /\ decision = "accept"
    /\ \E v \in Videos : Cardinality(AcceptedFrom(v)) > SOURCE_CAP

\* C20: in a non-face category a candidate that passed the gates and both
\* duplicate tests, with fewer than 5 frames accepted from its source, is
\* accepted while the selection is not full, whatever the manifest holds for
\* the source (no entry and 0 included).
C20_Step ==
    (/\ Evaluates
     /\ ~is_face_category
     /\ PassesDuplicateTests(NextItem)
     /\ Len(FramesOf(top_n_items, NextItem.source_video)) < TEMPORAL_TEST_COUNT) =>
        /\ decision' = "accept"
        /\ top_n_items' = Append(top_n_items, NextItem)

C20_BelowFiveUnrestricted == [][C20_Step]_vars

\* The final score the audit list of category c holds for a file.
ScoreIn(c, file) ==
    LET list == all_final_results[c]
    IN  list[CHOOSE i \in 1..Len(list) : FileOf(list[i]) = file].final_score

\* C19: the output folder of a category holds one file per accepted item,
\* under the ranks 1..len without gap or repeat; the rank of an item is its
\* position in the selection, and the final scores do not rise with the rank.
C19_RankedOutput ==
    \A c \in DOMAIN staging :
        LET n == Cardinality(staging[c])
        IN  /\ {e.rank : e \in staging[c]} = 1..n
            /\ Cardinality({e.file : e \in staging[c]}) = n
            /\ \A e1, e2 \in staging[c] :
                  e1.rank < e2.rank =>
                      ~ScoreLess(ScoreIn(c, e1.file), ScoreIn(c, e2.file))
            /\ (pc = "category" /\ c = CatName) =>
                  /\ n = Len(top_n_items)
                  /\ \A e \in staging[c] : e.file = FileOf(top_n_items[e.rank])

\* An output folder with two files whose scores differ.
C19_Witness ==
    \E c \in DOMAIN staging :
        \E e1, e2 \in staging[c] :
            /\ e1.rank = 1 /\ e2.rank = 2
            /\ ScoreLess(ScoreIn(c, e2.file), ScoreIn(c, e1.file))

\* The hashes accepted so far from source video v, in order.
RECURSIVE HashesOf(_, _)
HashesOf(acc, v) ==
    IF acc = <<>>
    THEN <<>>
    ELSE HashesOf(SubSeq(acc, 1, Len(acc) - 1), v)
             \o (IF acc[Len(acc)].source_video = v
                 THEN <<HashOf(acc[Len(acc)])>> ELSE <<>>)

\* C18: the selection state of a category is made of the items accepted in
\* this category alone (nothing of an earlier category is in the accepted
\* list, the hash set, the per-source hash lists or the per-source frame
\* lists), and the accepted list is a function of the category's own sorted
\* list.
C18_CategoriesIndependent ==
    pc = "select" =>
        /\ \A i \in 1..Len(top_n_items) :
              \E j \in 1..sel_i : top_n_items[i] = all_category_scores[j]
        /\ seen_global_hashes = {HashOf(top_n_items[i]) : i \in 1..Len(top_n_items)}
        /\ \A v \in Videos :
              /\ ListOf(seen_source_hashes, v) = HashesOf(top_n_items, v)
              /\ ListOf(seen_source_frame_indices, v) =
                    (IF is_face_category THEN <<>> ELSE FramesOf(top_n_items, v))
        /\ top_n_items = GreedySelection(all_category_scores, sel_i)

\* The items of an earlier category that were copied to its output folder.
AcceptedEarlier ==
    UNION {{all_final_results[c][i] : i \in
               {j \in 1..Len(all_final_results[c]) :
                   \E e \in staging[c] : e.file = FileOf(all_final_results[c][j])}} :
           c \in DOMAIN staging \ {CatName}}

\* An item accepted although an earlier category accepted a frame of the same
\* source with a hash less than GLOBAL_HASH_THRESHOLD away.
C18_Witness ==
    /\ pc = "select"
    /\ decision = "accept"
    /\ \E it \in AcceptedEarlier :
          /\ it.source_video = top_n_items[Len(top_n_items)].source_video
          /\ HashDistance(HashOf(it), HashOf(top_n_items[Len(top_n_items)]))
                 < GLOBAL_HASH_THRESHOLD

\* The files of the current category that Pass 1 gave up on.
GivenUp == {w.file : w \in {x \in warnings : x.category = CatName}}

FailReasons == {"Fail: Too many objects", "Fail: Empty mask", "Fail: Too blurry"}

\* The item is in the list as a rejected one: final score 0 and a reason.
RecordedAsRejected(item) ==
    item.final_score = ZeroScore /\ item.mask_status[1] \in FailReasons

\* No file given up on was copied to an output folder.
NoFailureStaged ==
    \A w \in warnings :
        w.category \in DOMAIN staging =>
            \A e \in staging[w.category] : e.file # w.file

LeavesCategory == pc \in {"pass1", "select"} /\ pc' = "category"

\* The candidates of the category being left.
Candidates ==
    {FileOf(all_category_scores[i]) : i \in 1..Len(all_category_scores)} \cup GivenUp

\* The items of a list that were copied to the output folder.
Selected(list, folder) ==
    {i \in 1..Len(list) : \E e \in folder : e.file = FileOf(list[i])}

\* C16: the audit list keeps, for every category whose folder held candidates
\* (one in which no candidate passed the gates included), every candidate;
\* a gate-rejected one with its reason, a selector-rejected one with a reason
\* and a status; entries are never taken out, and the report is what is kept.
C16_Step ==
    /\ (LeavesCategory /\ Candidates # {}) =>
          /\ CatName \in DOMAIN all_final_results'
          /\ LET list == all_final_results'[CatName]
             IN  /\ \A f \in Candidates : \E i \in 1..Len(list) : FileOf(list[i]) = f
                 /\ \A i \in 1..Len(list) :
                       \/ i \in Selected(list, staging'[CatName])
                       \/ RecordedAsRejected(list[i])
                       \/ {"status", "reason"} \subseteq DOMAIN list[i]
    /\ \A c \in DOMAIN all_final_results :
          c \in DOMAIN all_final_results' /\ all_final_results'[c] = all_final_results[c]

C16_AuditComplete == [][C16_Step]_vars

\* The scenario: ten candidates, none gated, hashes pairwise 20 bits apart,
\* final scores on the steps 0.9, 0.8, ..., 0.1 (every step taken), room for 5.
C11_Scenario ==
    /\ pc = "select"
    /\ TOP_N_IMAGES = 5
    /\ Len(all_category_scores) = 10
    /\ \A i \in 1..10 :
          LET s == all_category_scores[i].final_score
          IN  s[1] # 0 /\ \E step \in 1..9 : 10 * s[1] = step * s[2]
    /\ \A step \in 1..9 : \E i \in 1..10 :
          10 * all_category_scores[i].final_score[1]
              = step * all_category_scores[i].final_score[2]
    /\ \A i, j \in 1..10 :
          i # j => HashDistance(HashOf(all_category_scores[i]),
                                HashOf(all_category_scores[j])) = 20

\* C11: in the scenario the pass accepts exactly the 5 highest-scored
\* candidates, whatever their source videos and whatever the category: the
\* first five of the sorted list, one per step of the pass, and no other.
C11_TopFive ==
    C11_Scenario =>
        top_n_items = SubSeq(all_category_scores, 1,
                             IF sel_i <= 5 THEN sel_i ELSE 5)

\* C21: in a non-face category, a candidate that passed the gates and both
\* duplicate tests while exactly 5 frames of its source are accepted, with mean
\* index avg and manifest value total, is accepted exactly when total is not 0
\* and either avg < total/2 and its frame index > (avg + total)/2, or
\* avg >= total/2 (a mean at the midpoint included) and its frame index <
\* avg/2; it is turned away otherwise, and the selection does not change.
C21_Step ==
    LET v == NextItem.source_video
        frames == FramesOf(top_n_items, v)
        sum == SeqSum(frames)
        total == ManifestGet(video_manifest, v)
        f == NextItem.frame_index
        early == 2 * sum < 5 * total
        passes == /\ total # 0
                  /\ \/ early /\ 10 * f > sum + 5 * total
                     \/ ~early /\ 10 * f < sum
    IN  (/\ Evaluates
         /\ ~is_face_category
         /\ PassesDuplicateTests(NextItem)
         /\ Len(frames) = 5) =>
            /\ passes => /\ decision' = "accept"
                         /\ top_n_items' = Append(top_n_items, NextItem)
            /\ ~passes => /\ decision' \in {"temporal_reject", "no_manifest"}
                          /\ total = 0 <=> decision' = "no_manifest"
                          /\ top_n_items' = top_n_items

C21_TemporalTest == [][C21_Step]_vars

\* The mean of the 5 accepted frames (20) is exactly the midpoint of the source
\* (40 / 2): frames 30, 60, 61 and 90 were turned away and frame 5 is accepted.
C21_Witness ==
    /\ pc = "select"
    /\ ~is_face_category
    /\ decision = "accept"
    /\ ManifestGet(video_manifest, "vidA") = 40
    /\ FramesOf(top_n_items, "vidA") = <<18, 19, 20, 21, 22, 5>>
    /\ \E i \in 1..sel_i : /\ all_category_scores[i].source_video = "vidA"
                           /\ all_category_scores[i].frame_index = 61

\* The sixth frame accepted from v and the five before it.
SixthOf(v) == FramesOf(top_n_items, v)[SOURCE_CAP]

FirstFiveSum(v) == SeqSum(SubSeq(FramesOf(top_n_items, v), 1, TEMPORAL_TEST_COUNT))

HasSix(v) == ~is_face_category /\ Len(FramesOf(top_n_items, v)) = SOURCE_CAP

\* C22 as stated: in a non-face category, whenever 6 frames of a source are
\* accepted, the sixth is strictly above the midpoint total_frames / 2 when
\* the mean of the first five is below it, and strictly below the midpoint
\* when that mean is at or above it.
C22_Original ==
    \A v \in Videos :
        HasSix(v) =>
            LET total == ManifestGet(video_manifest, v)
            IN  IF 2 * FirstFiveSum(v) < 5 * total
                THEN 2 * SixthOf(v) > total
                ELSE 2 * SixthOf(v) < total

\* C22, amended: the sixth is strictly above the midpoint when the mean of
\* the first five is below it; when that mean is at or above the midpoint the
\* sixth is strictly below half the mean, which is below the midpoint whenever
\* the mean is not above total_frames.
C22_Amended ==
    \A v \in Videos :
        HasSix(v) =>
            LET total == ManifestGet(video_manifest, v)
                sum == FirstFiveSum(v)
            IN  IF 2 * sum < 5 * total
                THEN 2 * SixthOf(v) > total
                ELSE /\ 10 * SixthOf(v) < sum
                     /\ sum <= 5 * total => 2 * SixthOf(v) < total

\* Six frames of a source with an early mean (20 of 100): the sixth is 61.
C22_Witness ==
    /\ pc = "select"
    /\ HasSix("vidA")
    /\ ManifestGet(video_manifest, "vidA") = 100
    /\ SixthOf("vidA") = 61
    /\ FirstFiveSum("vidA") = 100

\* The place of an item's file in the listing of its folder (the input order).
InputPosition(item) ==
    CHOOSE k \in 1..Len(CategoryFiles(family)) :
        CategoryFiles(family)[k] = FileOf(item)

\* Two items one of which turns the other away as a near-duplicate.
NearDuplicates(a, b) ==
    /\ a.final_score[1] # 0
    /\ b.final_score[1] # 0
    /\ HashDistance(HashOf(a), HashOf(b)) <
           (IF a.source_video = b.source_video
            THEN INTRA_SOURCE_HASH_THRESHOLD ELSE GLOBAL_HASH_THRESHOLD)

IsAccepted(item) == \E n \in 1..Len(top_n_items) : top_n_items[n] = item

\* C23: the list the selection loop walks is in non-increasing order of
\* final_score, and items of equal final_score are in their input order; of
\* two near-duplicates of equal score the later one in the input order is
\* never accepted when the earlier one is.
C23_StableSort ==
    pc = "select" =>
        \A i, j \in 1..Len(all_category_scores) :
            i < j =>
                LET a == all_category_scores[i]
                    b == all_category_scores[j]
                IN  /\ ~ScoreLess(a.final_score, b.final_score)
                    /\ a.final_score = b.final_score =>
                           /\ InputPosition(a) < InputPosition(b)
                           /\ NearDuplicates(a, b) =>
                                  ~(IsAccepted(a) /\ IsAccepted(b))
                           /\ (NearDuplicates(a, b) /\ IsAccepted(b)) =>
                                  j <= sel_i /\ ~IsAccepted(a)

\* Frame 20 of vidA and frame 7 of vidB have the same score and hashes 2 bits
\* apart: the first in the listing is accepted, the second turned away.
C23_Witness ==
    /\ pc = "select"
    /\ decision = "global_dupe"
    /\ \E i \in 1..sel_i :
          LET a == all_category_scores[i]
              b == all_category_scores[sel_i]
          IN  /\ i < sel_i
              /\ a.final_score = b.final_score
              /\ a.source_video # b.source_video
              /\ NearDuplicates(a, b)
              /\ IsAccepted(a)
              /\ ~IsAccepted(b)

\* The image read last is one the gates were applied to.
Gated(img) == img.read \in {"ok", "error"}

\* The item Pass 1 appended last, for the file at read_pos.
LastItem == all_category_scores[Len(all_category_scores)]

LastItemIsOfImage ==
    /\ all_category_scores # <<>>
    /\ FileOf(LastItem) = CategoryFiles(family)[read_pos]

\* C24: a readable image that fails a gate is recorded with final_score 0.0
\* and the reason of the gate, and with no pose, brightness or hash (0, 0 and
\* "N/A"); the mask test comes first, so an image that fails both gates carries
\* the reason of the mask test; an image with 1 to 3 regions and a sharpness of
\* 50 or more (exactly 50 included) passes both gates and has no final score
\* before Pass 2.
C24_GateOrder ==
    (pc = "pass1" /\ image # NoImage /\ Gated(image)) =>
        LET topology == image.contours = 0 \/ image.contours > MAX_CONTOUR_COUNT
            blurry == image.sharpness < MIN_SHARPNESS_THRESHOLD
            blank == /\ LastItem.final_score = ZeroScore
                     /\ LastItem.raw_pose = 0
                     /\ LastItem.raw_brightness = 0
                     /\ LastItem.phash = NA
        IN  /\ topology =>
                /\ LastItemIsOfImage
                /\ blank
                /\ LastItem.raw_mask_score = 0
                /\ LastItem.mask_status =
                       (IF image.contours = 0 THEN <<"Fail: Empty mask">>
                        ELSE <<"Fail: Too many objects", image.contours>>)
            /\ (~topology /\ blurry) =>
                /\ LastItemIsOfImage
                /\ blank
                /\ LastItem.mask_status = <<"Fail: Too blurry">>
                /\ LastItem.raw_sharpness = image.sharpness
            /\ (~topology /\ ~blurry /\ image.read = "ok") =>
                /\ LastItemIsOfImage
                /\ LastItem.final_score = NoValue
                /\ LastItem.mask_status = <<"Pass", image.contours>>
                /\ LastItem.phash = image.phash
                /\ LastItem.raw_pose = image.pose
                /\ LastItem.raw_brightness = image.brightness
                /\ LastItem.raw_sharpness = image.sharpness

\* An image with 4 regions and sharpness 40 fails both gates.
C24_Witness ==
    /\ pc = "pass1"
    /\ image # NoImage
    /\ Gated(image)
    /\ image.contours > MAX_CONTOUR_COUNT
    /\ image.sharpness < MIN_SHARPNESS_THRESHOLD
    /\ LastItem.mask_status = <<"Fail: Too many objects", image.contours>>

\* C25: from the end of Pass 0 on the manifest never changes; in particular
\* the selection pass reads it (for a source it has no entry for, too) without
\* adding or changing an entry.
C25_Step ==
    /\ pc # "manifest" => video_manifest' = video_manifest
    /\ Evaluates => /\ DOMAIN video_manifest' = DOMAIN video_manifest
                    /\ \A v \in DOMAIN video_manifest :
                          video_manifest'[v] = video_manifest[v]

C25_ManifestReadOnly == [][C25_Step]_vars

\* The manifest was read for a source it has no entry for, and has none after.
C25_Witness ==
    /\ pc = "select"
    /\ decision = "no_manifest"
    /\ all_category_scores[sel_i].source_video \notin DOMAIN video_manifest
    /\ video_manifest # EmptyMap

\* C26: an iteration that does not accept its candidate (gated, near-duplicate,
\* temporal test, cap, no manifest value) leaves the accepted list, the hash
\* set and, for every source, the list of accepted hashes and the list of
\* accepted frame indices as they were; after a rejection by the temporal test
\* the source still has 5 accepted frames.
C26_Step ==
    (Evaluates /\ decision' # "accept") =>
        /\ top_n_items' = top_n_items
        /\ seen_global_hashes' = seen_global_hashes
        /\ \A v \in Videos :
              /\ ListOf(seen_source_hashes', v) = ListOf(seen_source_hashes, v)
              /\ ListOf(seen_source_frame_indices', v) =
                    ListOf(seen_source_frame_indices, v)
        /\ decision' = "temporal_reject" =>
              Len(ListOf(seen_source_frame_indices', NextItem.source_video)) =
                  TEMPORAL_TEST_COUNT

C26_RejectionLeavesState == [][C26_Step]_vars

\* Frames 30 and 60 were turned away by the temporal test at 5 accepted
\* frames, and the later frame 61 has just been accepted as the sixth.
C26_Witness ==
    /\ pc = "select"
    /\ ~is_face_category
    /\ decision = "accept"
    /\ all_category_scores[sel_i].frame_index = 61
    /\ FramesOf(top_n_items, "vidA") = <<18, 19, 20, 21, 22, 61>>
    /\ \E i, j \in 1..(sel_i - 1) :
          /\ FileOf(all_category_scores[i]) = File("vidA", 30)
          /\ FileOf(all_category_scores[j]) = File("vidA", 60)

\* The place of an accepted item in the sorted list.
IndexOf(item) ==
    CHOOSE i \in 1..Len(all_category_scores) : all_category_scores[i] = item

\* The accepted items that come before position j of the sorted list.
AcceptedBefore(j) ==
    {n \in 1..Len(top_n_items) : IndexOf(top_n_items[n]) < j}

\* The loop has ended: FinishSelection is what comes next.
PassEnded ==
    /\ pc = "select"
    /\ sel_i = Len(all_category_scores) \/ Len(top_n_items) >= TOP_N_IMAGES

\* Why the candidate at position j was not accepted.
Cause(j) ==
    LET item == all_category_scores[j]
        before == AcceptedBefore(j)
        same == {n \in before : top_n_items[n].source_video = item.source_video}
        sum == SeqSum(FramesOf(SubSeq(top_n_items, 1, Cardinality(before)),
                               item.source_video))
        total == ManifestGet(video_manifest, item.source_video)
        f == item.frame_index
    IN  \/ Cardinality(before) >= TOP_N_IMAGES
        \/ \E n \in before :
              HashDistance(HashOf(item), HashOf(top_n_items[n])) <
                  GLOBAL_HASH_THRESHOLD
        \/ \E n \in same :
              HashDistance(HashOf(item), HashOf(top_n_items[n])) <
                  INTRA_SOURCE_HASH_THRESHOLD
        \/ /\ ~is_face_category
           /\ \/ total = 0
              \/ Cardinality(same) >= 6
              \/ /\ Cardinality(same) = 5
                 /\ IF 2 * sum < 5 * total
                    THEN 10 * f <= sum + 5 * total
                    ELSE 10 * f >= sum

\* C27: every candidate of the sorted list that passed the gates, was looked
\* at (or was left behind when the loop ended) and is not accepted has a
\* cause: it comes after the N-th acceptance, or it is within the global
\* threshold of an item accepted before it, or within the intra-source
\* threshold of an item of its source accepted before it, or (non-face) it
\* failed the temporal test with exactly 5 of its source accepted, met the
\* cap of 6, or its source has manifest value 0.
C27_NoSkipWithoutCause ==
    pc = "select" =>
        \A j \in 1..Len(all_category_scores) :
            (/\ all_category_scores[j].final_score[1] # 0
             /\ ~IsAccepted(all_category_scores[j])
             /\ j <= sel_i \/ PassEnded) => Cause(j)

\* The pass has ended with candidates turned away for three different causes.
C27_Witness ==
    /\ PassEnded
    /\ ~is_face_category
    /\ \E i, j, k \in 1..sel_i :
          /\ ~IsAccepted(all_category_scores[i])
          /\ ~IsAccepted(all_category_scores[j])
          /\ ~IsAccepted(all_category_scores[k])
          /\ \E n \in AcceptedBefore(i) :
                HashDistance(HashOf(all_category_scores[i]), HashOf(top_n_items[n]))
                    < GLOBAL_HASH_THRESHOLD
          /\ all_category_scores[j].frame_index = 30
          /\ Cardinality(AcceptedBefore(j)) = TEMPORAL_TEST_COUNT
          /\ all_category_scores[k].frame_index = 90
          /\ Cardinality(AcceptedBefore(k)) = SOURCE_CAP

\* The first candidate of the sorted list that passed the gates.
FirstValid ==
    CHOOSE f \in 1..Len(all_category_scores) :
        /\ all_category_scores[f].final_score[1] # 0
        /\ \A g \in 1..(f - 1) : all_category_scores[g].final_score[1] = 0

\* C28: the accepted list is a subsequence of the sorted list: every accepted
\* item is an item of the list, the accepted items stand in the order of the
\* list without repeat, and their final scores do not rise; with N >= 1 the
\* first candidate that passed the gates is the first accepted item, in the
\* face category always and in a non-face category when the manifest value of
\* its source is not 0.
C28_Subsequence ==
    pc = "select" =>
        /\ \A n \in 1..Len(top_n_items) :
              \E j \in 1..sel_i : all_category_scores[j] = top_n_items[n]
        /\ \A n, k \in 1..Len(top_n_items) :
              n < k => /\ IndexOf(top_n_items[n]) < IndexOf(top_n_items[k])
                       /\ ~ScoreLess(top_n_items[n].final_score,
                                     top_n_items[k].final_score)
        /\ (/\ TOP_N_IMAGES >= 1
            /\ sel_i >= FirstValid
            /\ \/ is_face_category
               \/ ManifestGet(video_manifest,
                              all_category_scores[FirstValid].source_video) # 0) =>
              /\ top_n_items # <<>>
              /\ top_n_items[1] = all_category_scores[FirstValid]

\* A non-face selection of three items with candidates turned away in between.
C28_Witness ==
    /\ pc = "select"
    /\ ~is_face_category
    /\ Len(top_n_items) >= 3
    /\ top_n_items[1] = all_category_scores[FirstValid]
    /\ IndexOf(top_n_items[3]) > 3
    /\ ScoreLess(top_n_items[3].final_score, top_n_items[1].final_score)

\* C29: while the selection loop runs, seen_global_hashes is the set of the
\* hashes of the accepted items and has as many elements as the accepted list
\* (no two accepted items have the same hash); for every source,
\* seen_source_hashes lists the hashes of its accepted items in the order of
\* acceptance; in a non-face category seen_source_frame_indices has a list of
\* the same length for the source, holding the frame indices of these items.
C29_StateConsistent ==
    pc = "select" =>
        /\ \A h \in seen_global_hashes :
              \E n \in 1..Len(top_n_items) : HashOf(top_n_items[n]) = h
        /\ \A n \in 1..Len(top_n_items) : HashOf(top_n_items[n]) \in seen_global_hashes
        /\ Cardinality(seen_global_hashes) = Len(top_n_items)
        /\ \A n, k \in 1..Len(top_n_items) :
              n # k => HashOf(top_n_items[n]) # HashOf(top_n_items[k])
        /\ \A v \in Videos :
              LET hashes == ListOf(seen_source_hashes, v)
                  indices == ListOf(seen_source_frame_indices, v)
                  from == SelectSeq(top_n_items, LAMBDA it : it.source_video = v)
              IN  /\ Len(hashes) = Len(from)
                  /\ \A n \in 1..Len(from) : hashes[n] = HashOf(from[n])
                  /\ ~is_face_category =>
                        /\ Len(indices) = Len(hashes)
                        /\ \A n \in 1..Len(from) : indices[n] = from[n].frame_index

\* A non-face selection with accepted items of two sources, two of them of
\* the same source.
C29_Witness ==
    /\ pc = "select"
    /\ ~is_face_category
    /\ decision = "accept"
    /\ Len(ListOf(seen_source_frame_indices, "vidA")) >= 2
    /\ Len(ListOf(seen_source_frame_indices, "vidB")) >= 1

V_Face == v_input.category = "a_face_n_hair"

\* The next item of the list the two selectors walk.
V_NextItem == v_input.items[v_i + 1]

\* The number of items of source v in a selection.
V_Count(top, v) == Len(FramesOf(top, v))

V_In(item, top) == \E n \in 1..Len(top) : top[n] = item

\* C30 as stated: on the same sorted list, with the same thresholds and N, the
\* three-stage selector accepts the same items in the same order as the
\* two-stage selector in the face category and whenever no source has 5
\* accepted items; otherwise its selection is the two-stage selection without
\* some items of sources that have 5 or more accepted items.
C30_Original ==
    /\ (V_Face \/ \A v \in Videos : V_Count(v3.top_n_items, v) < 5) =>
           v3.top_n_items = v2.top_n_items
    /\ \A n \in 1..Len(v3.top_n_items) : V_In(v3.top_n_items[n], v2.top_n_items)
    /\ \A n \in 1..Len(v2.top_n_items) :
          ~V_In(v2.top_n_items[n], v3.top_n_items) =>
              V_Count(v2.top_n_items, v2.top_n_items[n].source_video) >= 5

\* C30, amended: the three-stage selector accepts the same items in the same
\* order as the two-stage selector in the face category and whenever no source
\* has 5 accepted items; the two selections part only at a candidate that the
\* two-stage selector accepts and the three-stage selector turns away, in a
\* non-face category, from a source with 5 or more accepted items.
C30_Step ==
    /\ (V_Face \/ \A v \in Videos : V_Count(v3.top_n_items', v) < 5) =>
           v3.top_n_items' = v2.top_n_items'
    /\ (v3.top_n_items = v2.top_n_items /\ v3.top_n_items' # v2.top_n_items') =>
           /\ ~V_Face
           /\ v2.top_n_items' = Append(v2.top_n_items, V_NextItem)
           /\ v3.top_n_items' = v3.top_n_items
           /\ V_Count(v3.top_n_items, V_NextItem.source_video) >= 5
    /\ v3.top_n_items = v2.top_n_items =>
           /\ v3.seen_global_hashes = v2.seen_global_hashes
           /\ v3.seen_source_hashes = v2.seen_source_hashes

C30_Amended == [][C30_Step]_vars

\* Both loops are over; the three-stage selector turned away frame 35 of vidA
\* at 5 accepted frames and then accepted the near-duplicate frame of vidB,
\* which the two-stage selector turned away.
C30_Witness ==
    /\ v_i = Len(v_input.items)
    /\ v_i > 0
    /\ ~V_Face
    /\ \E n \in 1..Len(v3.top_n_items) :
          /\ v3.top_n_items[n].source_video = "vidB"
          /\ v3.top_n_items[n].frame_index = 5
          /\ ~V_In(v3.top_n_items[n], v2.top_n_items)
    /\ \E n \in 1..Len(v2.top_n_items) :
          /\ v2.top_n_items[n].frame_index = 35
          /\ ~V_In(v2.top_n_items[n], v3.top_n_items)

====
